---- MODULE Spec2Model ----
(***************************************************************************)
(* The creature store (src/src/store.ts), the timers it starts, the        *)
(* application schedulers and controls that drive it (src/unnamed/part_000 *)
(* and part_001), the egg renderer (src/src/EggCanvas.tsx) and the         *)
(* Electron main process that keeps the save file (src/electron.cjs).      *)
(*                                                                         *)
(* Numbers.  The store keeps its stats as IEEE doubles.  Here a stat value *)
(* v is the integer v * Unit, with Unit = 7200, and every clock reading is *)
(* a whole number of seconds (a multiple of 1000 ms).  With that grain     *)
(* every product rate * elapsedHours and the 0.5 weight of calculateHealth *)
(* is a whole number of units, so the arithmetic below is the exact        *)
(* rational arithmetic of the source; only the rounding of the doubles is  *)
(* left out.                                                               *)
(***************************************************************************)
EXTENDS Integers, Sequences, FiniteSets, TLC

VARIABLES
    hunger, thirst, happiness, energy, health,  \* PetState, store.ts:23-27
    mood,                                       \* PetState.mood, store.ts:28
    tricks,                                     \* PetState.tricks, store.ts:29
    lastSavedTime,                              \* PetState.lastSavedTime, store.ts:30
    isSleeping,                                 \* PetState.isSleeping, store.ts:31
    now,          \* the reading Date.now() returns (wall clock, ms)
    timers,       \* pending setTimeout callbacks, in the order they fire
    last,         \* the most recent call into the store and its outcome
    start,        \* the stats the store held when the application was mounted
    steps,        \* how many calls and clock movements have happened so far
    egg,          \* the egg fields of the store (eggPhase, warmth, bond, ...)
    canvas,       \* the EggCanvas component: isWarming and its render effect
    app,          \* the App component: its timers and the props it rendered
    main,         \* the Electron main process (electron.cjs) and its save file
    cooldowns     \* the store's cooldowns: when each action was last used

storeVars == <<hunger, thirst, happiness, energy, health, mood, tricks,
               lastSavedTime, isSleeping>>
envVars == <<now, timers, last, start, steps>>
hostVars == <<egg, canvas, app, main, cooldowns>>
vars == <<storeVars, envVars, hostVars>>

----------------------------------------------------------------------------
(* Bounds of the model *)

\* store calls and clock movements in one behaviour
MaxSteps == 5
\* the number of calls the player makes in the specification of the callbacks
MaxCalls == 3
\* hours the application is left running in the idle-application specifications
IdleHours == 1

----------------------------------------------------------------------------
(* Representation of numbers *)

\* units per stat point: 1000 ms at 1 point per hour is 2 units, and half a
\* happiness unit count is whole because happiness only takes even values
Unit == 2 * 60 * 60
\* (1000 * 60 * 60), store.ts:203
HOUR_MS == 1000 * 60 * 60
\* ms per unit at a rate of one point per hour (500 ms)
Grain == HOUR_MS \div Unit

Max(a, b) == IF a >= b THEN a ELSE b
Min(a, b) == IF a <= b THEN a ELSE b

----------------------------------------------------------------------------
(* Constants of store.ts *)

MAX_STAT == 100 * Unit
MIN_STAT == 0 * Unit
\* the rates of hunger and thirst exchanged
DECAY_RATES_SWAPPED == [hunger |-> 15, thirst |-> 10, happiness |-> 5, energy |-> 8]

DECAY_RATES_PER_HOUR == [hunger |-> 10, thirst |-> 15, happiness |-> 5, energy |-> 8]
\* energy recovered per hour while sleeping, store.ts:218
SLEEP_RECOVERY_PER_HOUR == 20
\* delay of the mood-settle setTimeout, store.ts:103
SETTLE_DELAY_MS == 2000
\* elapsedHours < 0.01 as milliseconds: 0.01 * HOUR_MS
MIN_ELAPSED_MS == HOUR_MS \div 100

Trick == {"sit", "spin", "wave", "dance"}

----------------------------------------------------------------------------
(* Pure functions of store.ts *)

\* clamp without its upper limit
clampNoCeiling(value) == Max(MIN_STAT, value)

clamp(value) == Max(MIN_STAT, Min(MAX_STAT, value))

calculateHealth(h, t, hp) ==
    LET p1 == IF h < 20 * Unit THEN 20 * Unit - h ELSE 0
        p2 == IF t < 20 * Unit THEN 20 * Unit - t ELSE 0
        p3 == IF hp < 20 * Unit THEN (20 * Unit - hp) \div 2 ELSE 0
    IN clamp(MAX_STAT - (p1 + p2 + p3))

\* determineMood with the sad test ahead of the sick test
determineMoodSadFirst(state) ==
    IF state.isSleeping THEN "sleeping"
    ELSE IF state.happiness < 40 * Unit \/ state.hunger < 30 * Unit
            \/ state.thirst < 30 * Unit THEN "sad"
    ELSE IF state.health < 40 * Unit THEN "sick"
    ELSE IF state.happiness > 70 * Unit /\ state.health > 70 * Unit THEN "happy"
    ELSE "neutral"

determineMood(state) ==
    IF state.isSleeping THEN "sleeping"
    ELSE IF state.health < 40 * Unit THEN "sick"
    ELSE IF state.happiness < 40 * Unit \/ state.hunger < 30 * Unit
            \/ state.thirst < 30 * Unit THEN "sad"
    ELSE IF state.happiness > 70 * Unit /\ state.health > 70 * Unit THEN "happy"
    ELSE "neutral"

\* rate * elapsedHours, in units, for an elapsed time in ms
perHour(rate, elapsedMs) == rate * (elapsedMs \div Grain)

\* the store's state as the record the callbacks of set() receive
state == [hunger |-> hunger, thirst |-> thirst, happiness |-> happiness,
          energy |-> energy, health |-> health, mood |-> mood, tricks |-> tricks,
          lastSavedTime |-> lastSavedTime, isSleeping |-> isSleeping]

initialState ==
    [hunger |-> MAX_STAT, thirst |-> MAX_STAT, happiness |-> MAX_STAT,
     energy |-> MAX_STAT, health |-> MAX_STAT, mood |-> "happy",
     isSleeping |-> FALSE,
     tricks |-> [t \in Trick |-> [learned |-> FALSE, progress |-> 0]],
     lastSavedTime |-> 0]

\* set(partial): the store's fields become those of record s
SetState(s) ==
    /\ hunger' = s.hunger
    /\ thirst' = s.thirst
    /\ happiness' = s.happiness
    /\ energy' = s.energy
    /\ health' = s.health
    /\ mood' = s.mood
    /\ tricks' = s.tricks
    /\ lastSavedTime' = s.lastSavedTime
    /\ isSleeping' = s.isSleeping

\* { ...s, ...partial } for a partial record
Merge(s, partial) ==
    [k \in DOMAIN s |-> IF k \in DOMAIN partial THEN partial[k] ELSE s[k]]

\* the state after construction: the store's fields are those of record s
SetInit(s) ==
    /\ hunger = s.hunger
    /\ thirst = s.thirst
    /\ happiness = s.happiness
    /\ energy = s.energy
    /\ health = s.health
    /\ mood = s.mood
    /\ tricks = s.tricks
    /\ lastSavedTime = s.lastSavedTime
    /\ isSleeping = s.isSleeping

----------------------------------------------------------------------------
(* The egg.  The store of this version keeps the egg's fields next to the   *)
(* creature's; a hatched creature has eggPhase false and bond 100.  Next to *)
(* the fields of the store, spawned counts the particles spawned so far,    *)
(* and ref tells which array object the field particles holds: it changes   *)
(* whenever the store puts a new array there, be it one with the same       *)
(* elements.                                                                *)

hatchedEgg ==
    [eggPhase |-> FALSE, warmth |-> 60, bond |-> 100, stability |-> 100,
     isWobbling |-> FALSE, particles |-> << >>, spawned |-> 0, ref |-> 0]

\* EggCanvas is rendered only in the egg phase
noCanvas ==
    [mounted |-> FALSE, isWarming |-> FALSE, isHatching |-> FALSE,
     hatchProgress |-> 0, floated |-> 0, removing |-> << >>]

\* App before it is mounted: no timer is armed
noApp == [mounted |-> FALSE]

\* the values the main process holds and hands over: null, or a string
null == << >>
String(p) == <<p>>

\* the application run in a browser: no main process and no save file
noMain ==
    [running |-> FALSE, currentState |-> null, received |-> << >>,
     threw |-> FALSE,
     file |-> [exists |-> FALSE, accessible |-> TRUE, data |-> ""],
     reply |-> [asked |-> FALSE, threw |-> FALSE, value |-> null]]

\* the actions that have a cooldown
CooledActions == {"feed", "giveWater", "play", "pet", "teach"}

\* no action has been used yet
noCooldowns == [a \in CooledActions |-> 0]

\* the store alone: a hatched creature and no component mounted
NoHost ==
    /\ egg = hatchedEgg
    /\ canvas = noCanvas
    /\ app = noApp
    /\ main = noMain
    /\ cooldowns = noCooldowns

----------------------------------------------------------------------------
(* The callbacks the store's actions hand to set(): each maps the state s   *)
(* and the reading t of Date.now() to the next state                        *)

\* feed without recomputing health
feedStaleHealth(s, t) ==
    IF s.isSleeping THEN s
    ELSE Merge(s, [hunger |-> clamp(s.hunger + 30 * Unit),
                   mood |-> "eating",
                   lastSavedTime |-> t])

feed(s, t) ==
    IF s.isSleeping THEN s
    ELSE LET newHunger == clamp(s.hunger + 30 * Unit)
         IN Merge(s, [hunger |-> newHunger,
                      health |-> calculateHealth(newHunger, s.thirst, s.happiness),
                      mood |-> "eating",
                      lastSavedTime |-> t])

giveWater(s, t) ==
    IF s.isSleeping THEN s
    ELSE LET newThirst == clamp(s.thirst + 40 * Unit)
         IN Merge(s, [thirst |-> newThirst,
                      health |-> calculateHealth(s.hunger, newThirst, s.happiness),
                      mood |-> "drinking",
                      lastSavedTime |-> t])

\* play that costs no energy
playFree(s, t) ==
    IF s.isSleeping THEN s
    ELSE LET newHappiness == clamp(s.happiness + 20 * Unit)
         IN Merge(s, [happiness |-> newHappiness,
                      health |-> calculateHealth(s.hunger, s.thirst, newHappiness),
                      mood |-> "playing",
                      lastSavedTime |-> t])

play(s, t) ==
    IF s.isSleeping THEN s
    ELSE LET newHappiness == clamp(s.happiness + 20 * Unit)
             newEnergy == clamp(s.energy - 10 * Unit)
         IN Merge(s, [happiness |-> newHappiness,
                      energy |-> newEnergy,
                      health |-> calculateHealth(s.hunger, s.thirst, newHappiness),
                      mood |-> "playing",
                      lastSavedTime |-> t])

pet(s, t) ==
    IF s.isSleeping THEN s
    ELSE LET newHappiness == clamp(s.happiness + 10 * Unit)
         IN Merge(s, [happiness |-> newHappiness,
                      health |-> calculateHealth(s.hunger, s.thirst, newHappiness),
                      mood |-> "happy",
                      lastSavedTime |-> t])

\* teach without the check that the trick is already learned
teachRelearns(s, t, trick) ==
    IF s.isSleeping \/ s.energy < 20 * Unit \/ s.happiness < 40 * Unit THEN s
    ELSE LET trickData == s.tricks[trick]
             learningBonus == IF s.happiness > 80 * Unit THEN 15 * Unit ELSE 5 * Unit
             newProgress == Min(100 * Unit, trickData.progress + learningBonus)
             newEnergy == clamp(s.energy - 15 * Unit)
         IN Merge(s, [energy |-> newEnergy,
                      tricks |-> [s.tricks EXCEPT ![trick] =
                                     [learned |-> newProgress >= 100 * Unit,
                                      progress |-> newProgress]],
                      mood |-> IF newProgress >= 100 * Unit THEN "happy" ELSE "playing",
                      lastSavedTime |-> t])

\* teach without the cap of 100 on the progress
teachUncapped(s, t, trick) ==
    IF s.isSleeping \/ s.energy < 20 * Unit \/ s.happiness < 40 * Unit THEN s
    ELSE LET trickData == s.tricks[trick] IN
         IF trickData.learned THEN s
         ELSE LET learningBonus == IF s.happiness > 80 * Unit THEN 15 * Unit
                                   ELSE 5 * Unit
                  newProgress == trickData.progress + learningBonus
                  newEnergy == clamp(s.energy - 15 * Unit)
              IN Merge(s, [energy |-> newEnergy,
                           tricks |-> [s.tricks EXCEPT ![trick] =
                                          [learned |-> newProgress >= 100 * Unit,
                                           progress |-> newProgress]],
                           mood |-> IF newProgress >= 100 * Unit THEN "happy"
                                    ELSE "playing",
                           lastSavedTime |-> t])

teach(s, t, trick) ==
    IF s.isSleeping \/ s.energy < 20 * Unit \/ s.happiness < 40 * Unit THEN s
    ELSE LET trickData == s.tricks[trick] IN
         IF trickData.learned THEN s
         ELSE LET learningBonus == IF s.happiness > 80 * Unit THEN 15 * Unit ELSE 5 * Unit
                  newProgress == Min(100 * Unit, trickData.progress + learningBonus)
                  newEnergy == clamp(s.energy - 15 * Unit)
              IN Merge(s, [energy |-> newEnergy,
                           tricks |-> [s.tricks EXCEPT ![trick] =
                                          [learned |-> newProgress >= 100 * Unit,
                                           progress |-> newProgress]],
                           mood |-> IF newProgress >= 100 * Unit THEN "happy" ELSE "playing",
                           lastSavedTime |-> t])

\* sleep that leaves the mood as it was
sleepKeepsMood(s, t) ==
    Merge(s, [isSleeping |-> TRUE, lastSavedTime |-> t])

sleep(s, t) ==
    Merge(s, [isSleeping |-> TRUE, mood |-> "sleeping", lastSavedTime |-> t])

\* wakeUp that derives the mood from the state as it was, still asleep
wakeUpStillAsleep(s, t) ==
    Merge(s, [isSleeping |-> FALSE, mood |-> determineMood(s), lastSavedTime |-> t])

wakeUp(s, t) ==
    Merge(s, [isSleeping |-> FALSE,
              mood |-> determineMood(Merge(s, [isSleeping |-> FALSE])),
              lastSavedTime |-> t])

\* updateStatsOverTime that also settles the mood
updateStatsOverTimeSettles(s, t) ==
    Merge(s, [mood |-> determineMood(s), lastSavedTime |-> t])

updateStatsOverTime(s, t) ==
    Merge(s, [lastSavedTime |-> t])

\* the decay calculateOfflineDecay applies once the guard has passed
decayed(s, t) ==
    LET elapsedMs == t - s.lastSavedTime
        newHunger == clamp(s.hunger - perHour(DECAY_RATES_PER_HOUR.hunger, elapsedMs))
        newThirst == clamp(s.thirst - perHour(DECAY_RATES_PER_HOUR.thirst, elapsedMs))
        newEnergy == IF s.isSleeping
                     THEN clamp(s.energy + perHour(SLEEP_RECOVERY_PER_HOUR, elapsedMs))
                     ELSE clamp(s.energy - perHour(DECAY_RATES_PER_HOUR.energy, elapsedMs))
        newHappiness == clamp(s.happiness - perHour(DECAY_RATES_PER_HOUR.happiness, elapsedMs))
        newHealth == calculateHealth(newHunger, newThirst, newHappiness)
        interimState == Merge(s, [hunger |-> newHunger, thirst |-> newThirst,
                                  happiness |-> newHappiness, energy |-> newEnergy,
                                  health |-> newHealth, lastSavedTime |-> t])
    IN Merge(interimState, [mood |-> determineMood(interimState)])

\* calculateOfflineDecay without its guard on the elapsed time
calculateOfflineDecayUnguarded(s, t) == decayed(s, t)

calculateOfflineDecay(s, t) ==
    LET elapsedMs == t - s.lastSavedTime IN
    IF elapsedMs < MIN_ELAPSED_MS THEN s
    ELSE decayed(s, t)

\* the callback of the mood-settle setTimeout
\* a settle callback that leaves the mood as it finds it
settleMoodKeeps(s) == s

settleMood(s) == Merge(s, [mood |-> determineMood(s)])

----------------------------------------------------------------------------
(* Whether a call meets the preconditions of its action *)

awakeEligible(s) == ~s.isSleeping

teachEligible(s, trick) ==
    /\ ~s.isSleeping
    /\ s.energy >= 20 * Unit
    /\ s.happiness >= 40 * Unit
    /\ ~s.tricks[trick].learned

----------------------------------------------------------------------------
(* Inputs of the model *)

\* the tricks the player asks to teach
TeachInputs == {"sit", "spin"}
\* the amounts (ms) the wall clock is set back by in one step
Setbacks == {36 * 1000}

\* a call into the store: it is recorded as the most recent one
Call(op, ok) ==
    /\ steps < MaxSteps
    /\ steps' = steps + 1
    /\ last' = [op |-> op, ok |-> ok]

\* setTimeout(callback, 2000): the callback joins the pending timers, which
\* fire in the order they were set; every call arms a callback of its own
Schedule(ok) ==
    timers' = Append(timers, [left |-> SETTLE_DELAY_MS, ok |-> ok])

----------------------------------------------------------------------------
(* The operations of the store *)

Feed ==
    /\ SetState(feed(state, now))
    /\ Schedule(awakeEligible(state))
    /\ Call("feed", awakeEligible(state))
    /\ UNCHANGED <<now, start, hostVars>>

GiveWater ==
    /\ SetState(giveWater(state, now))
    /\ Schedule(awakeEligible(state))
    /\ Call("giveWater", awakeEligible(state))
    /\ UNCHANGED <<now, start, hostVars>>

Play ==
    /\ SetState(play(state, now))
    /\ Schedule(awakeEligible(state))
    /\ Call("play", awakeEligible(state))
    /\ UNCHANGED <<now, start, hostVars>>

Pet ==
    /\ SetState(pet(state, now))
    /\ Schedule(awakeEligible(state))
    /\ Call("pet", awakeEligible(state))
    /\ UNCHANGED <<now, start, hostVars>>

Teach(trick) ==
    /\ SetState(teach(state, now, trick))
    /\ Schedule(teachEligible(state, trick))
    /\ Call("teach", teachEligible(state, trick))
    /\ UNCHANGED <<now, start, hostVars>>

Sleep ==
    /\ SetState(sleep(state, now))
    /\ Call("sleep", TRUE)
    /\ UNCHANGED <<now, timers, start, hostVars>>

WakeUp ==
    /\ SetState(wakeUp(state, now))
    /\ Call("wakeUp", TRUE)
    /\ UNCHANGED <<now, timers, start, hostVars>>

UpdateStatsOverTime ==
    /\ SetState(updateStatsOverTime(state, now))
    /\ Call("updateStatsOverTime", TRUE)
    /\ UNCHANGED <<now, timers, start, hostVars>>

CalculateOfflineDecay ==
    /\ SetState(calculateOfflineDecay(state, now))
    /\ Call("calculateOfflineDecay", now - lastSavedTime >= MIN_ELAPSED_MS)
    /\ UNCHANGED <<now, timers, start, hostVars>>

\* the oldest mood-settle callback fires once its 2000 ms have passed
Settle ==
    /\ timers # << >>
    /\ Head(timers).left = 0
    /\ SetState(settleMood(state))
    /\ timers' = Tail(timers)
    /\ last' = [op |-> "settle", ok |-> Head(timers).ok]
    /\ UNCHANGED <<now, start, steps, hostVars>>

----------------------------------------------------------------------------
(* The clock *)

\* d ms pass: no pending callback is overdue afterwards
Advance(d) ==
    /\ steps < MaxSteps
    /\ \A i \in 1..Len(timers) : timers[i].left >= d
    /\ now' = now + d
    /\ timers' = [i \in 1..Len(timers) |-> [timers[i] EXCEPT !.left = @ - d]]
    /\ steps' = steps + 1
    /\ UNCHANGED <<storeVars, last, start, hostVars>>

\* the wall clock is set back by d ms (Date.now() is not monotonic); the
\* timers run on the monotonic clock and are not affected
ClockBack(d) ==
    /\ steps < MaxSteps
    /\ now - d >= 0
    /\ now' = now - d
    /\ steps' = steps + 1
    /\ UNCHANGED <<storeVars, timers, last, start, hostVars>>

\* time passes until the oldest pending callback is due
Elapse ==
    /\ timers # << >>
    /\ Head(timers).left > 0
    /\ now' = now + Head(timers).left
    /\ timers' = [i \in 1..Len(timers) |->
                    [timers[i] EXCEPT !.left = @ - Head(timers).left]]
    /\ UNCHANGED <<storeVars, last, start, steps, hostVars>>

----------------------------------------------------------------------------
(* States the store is restored from.  The persist middleware (store.ts     *)
(* 248-251) writes every state to storage and hydrates the store from it at *)
(* startup, so an application starts from the default state or from a state *)
(* an earlier session reached.  Each restored state below is computed by    *)
(* replaying a script of calls with the operators above.                    *)

Apply(s, c) ==
    CASE c.op = "feed" -> feed(s, c.t)
      [] c.op = "giveWater" -> giveWater(s, c.t)
      [] c.op = "play" -> play(s, c.t)
      [] c.op = "pet" -> pet(s, c.t)
      [] c.op = "teach" -> teach(s, c.t, c.arg)
      [] c.op = "sleep" -> sleep(s, c.t)
      [] c.op = "wakeUp" -> wakeUp(s, c.t)
      [] c.op = "updateStatsOverTime" -> updateStatsOverTime(s, c.t)
      [] c.op = "calculateOfflineDecay" -> calculateOfflineDecay(s, c.t)
      [] c.op = "settle" -> settleMood(s)

RECURSIVE Replay(_, _)
Replay(s, script) ==
    IF script = << >> THEN s
    ELSE Replay(Apply(s, Head(script)), Tail(script))

Do(op, arg, t) == [op |-> op, arg |-> arg, t |-> t]

\* six lessons of "sit" in the first session (progress 90, energy 10), then
\* two hours of sleep (energy 50): one more lesson will complete the trick
nearlyTrained ==
    Replay(initialState,
           << Do("teach", "sit", 0), Do("teach", "sit", 0), Do("teach", "sit", 0),
              Do("teach", "sit", 0), Do("teach", "sit", 0), Do("teach", "sit", 0),
              Do("settle", "none", 2000), Do("sleep", "none", 2000),
              Do("calculateOfflineDecay", "none", 2000 + 2 * HOUR_MS),
              Do("wakeUp", "none", 2000 + 2 * HOUR_MS) >>)

RestoredStates == {initialState, nearlyTrained}

\* nine hours without care (hunger 10, thirst 0, happiness 55, energy 28,
\* health 70, mood sad)
neglected ==
    Replay(initialState, << Do("calculateOfflineDecay", "none", 9 * HOUR_MS) >>)

----------------------------------------------------------------------------
(* The store under any sequence of calls *)

Init ==
    /\ \E s \in RestoredStates :
         /\ SetInit(s)
         /\ now = s.lastSavedTime
         /\ start = s
    /\ timers = << >>
    /\ last = [op |-> "create", ok |-> TRUE]
    /\ steps = 0
    /\ NoHost

Next ==
    \/ Feed
    \/ GiveWater
    \/ Play
    \/ Pet
    \/ \E trick \in TeachInputs : Teach(trick)
    \/ Sleep
    \/ WakeUp
    \/ UpdateStatsOverTime
    \/ CalculateOfflineDecay
    \/ Settle
    \/ \E d \in {1000, 2000, 36 * 1000, 9 * HOUR_MS} : Advance(d)
    \/ \E d \in Setbacks : ClockBack(d)

Spec == Init /\ [][Next]_vars

----------------------------------------------------------------------------
(* determineMood as a function of its argument.  Its argument is a PetState *)
(* record: the store passes it the current state, and persist hydrates that *)
(* state from storage as it finds it.  The values below sit on both sides   *)
(* of every threshold the function tests.                                   *)

MoodNeedLevels == {20 * Unit, 30 * Unit, 90 * Unit}

MoodInputs ==
    LET MoodHealthLevels == {30 * Unit, 40 * Unit, 70 * Unit, 71 * Unit, 100 * Unit}
        MoodHappinessLevels == {30 * Unit, 40 * Unit, 70 * Unit, 71 * Unit, 90 * Unit}
    IN
    {Merge(initialState, [isSleeping |-> sl, health |-> he, happiness |-> hp,
                          hunger |-> hu, thirst |-> th, mood |-> m]) :
        sl \in BOOLEAN, he \in MoodHealthLevels, hp \in MoodHappinessLevels,
        hu \in MoodNeedLevels, th \in MoodNeedLevels, m \in {"neutral", "eating"}}

InitMood ==
    /\ \E s \in MoodInputs :
         /\ SetInit(s)
         /\ start = s
    /\ now = 0
    /\ timers = << >>
    /\ last = [op |-> "create", ok |-> TRUE]
    /\ steps = 0
    /\ NoHost

\* set((state) => ({ mood: determineMood(state) }))
DetermineMood ==
    /\ last.op = "create"
    /\ SetState(settleMood(state))
    /\ last' = [op |-> "determineMood", ok |-> TRUE]
    /\ UNCHANGED <<now, timers, start, steps, hostVars>>

NextMood == DetermineMood

SpecMood == InitMood /\ [][NextMood]_vars

----------------------------------------------------------------------------

(* The egg phase: the egg operations of the store, the controls of App that *)
(* call them, and the EggCanvas component that draws the egg and calls      *)
(* hatch().  The egg operations are not part of the store under src/; they  *)
(* follow their description.                                                *)

\* the number of particles the player spawns in one behaviour
MaxParticles == 2

\* the callbacks of setTimeout(() => removeParticle(id), 0) that wait at once
MaxPending == 2

\* the frames of one run of the render effect a particle floats before it is
\* out of view (lp.y < -150 after steps of 0.5 from where it was spawned)
FloatFrames == 3

\* hatchProgress counts the additions of 0.01 made so far: the sum of 100 of
\* them is the first that exceeds 1 (1.0000000000000007 in double precision)
HATCH_FRAMES == 100

\* particles: [...particles, particle], a new array; the id of the new
\* particle is one no particle before it has carried
addParticle(e, type) ==
    [e EXCEPT !.particles = Append(@, [id |-> e.spawned, type |-> type]),
              !.spawned = @ + 1,
              !.ref = 1 - @]

warmEgg(e) ==
    IF ~e.eggPhase THEN e
    ELSE [e EXCEPT !.warmth = Min(100, @ + 15)]

talkToEgg(e) ==
    IF ~e.eggPhase THEN e
    ELSE [addParticle(e, "speech")
            EXCEPT !.bond = Min(100, @ + (IF e.stability < 50 THEN 2 ELSE 5))]

singToEgg(e) ==
    IF ~e.eggPhase \/ e.warmth < 60 THEN e
    ELSE [addParticle(e, "music")
            EXCEPT !.bond = Min(100, @ + (IF e.stability < 50 THEN 5 ELSE 10))]

steadyEgg(e) ==
    IF ~e.eggPhase \/ ~e.isWobbling THEN e
    ELSE [e EXCEPT !.isWobbling = FALSE, !.stability = 100]

triggerWobble(e) ==
    IF ~e.eggPhase THEN e
    ELSE [e EXCEPT !.isWobbling = TRUE]

\* particles: particles.filter(p => p.id !== id), a new array also when no
\* particle carries the id
removeParticle(e, id) ==
    [e EXCEPT !.particles = SelectSeq(@, LAMBDA p : p.id # id),
              !.ref = 1 - @]

\* hatch that leaves eggPhase as it is
hatchKeepsPhase(e) == [e EXCEPT !.bond = 100]

\* hatch: the egg becomes a creature with full stats
hatch(e) == [e EXCEPT !.eggPhase = FALSE, !.bond = 100]

hatchling(s) ==
    Merge(s, [hunger |-> MAX_STAT, thirst |-> MAX_STAT, happiness |-> MAX_STAT,
              energy |-> MAX_STAT, health |-> MAX_STAT, mood |-> "happy"])

\* the render effect of EggCanvas started early: isHatching from bond >= 95
renderEffectEarly(e, w) ==
    [mounted |-> TRUE, isWarming |-> w, isHatching |-> e.bond >= 95,
     hatchProgress |-> IF e.bond >= 95 THEN 1 ELSE 0,
     floated |-> IF e.particles # << >> THEN 1 ELSE 0, removing |-> << >>]

\* the body of the render effect of EggCanvas (37-60, 230): hatchProgress
\* starts from 0, isHatching is bond >= 100, localParticles starts empty, and
\* render() draws a first frame, in which every particle of the store gets
\* its local replica and floats up by one frame
renderEffect(e, w) ==
    [mounted |-> TRUE, isWarming |-> w, isHatching |-> e.bond >= 100,
     hatchProgress |-> IF e.bond >= 100 THEN 1 ELSE 0,
     floated |-> IF e.particles # << >> THEN 1 ELSE 0, removing |-> << >>]

\* the values the render effect depends on (235); hatch, removeParticle,
\* width and height never change.  React compares each with Object.is: the
\* numbers and booleans by value, the array particles by identity
renderDeps(e, w) == <<e.warmth, e.bond, e.stability, e.isWobbling, w, e.ref>>

\* EggCanvas after the store's egg has become e and isWarming w: App shows it
\* only in the egg phase, and React runs the render effect again when one of
\* the values it depends on has changed since the render before, which every
\* update of the store is followed by.  The cleanup of the effect cancels
\* the animation frame; the setTimeout callbacks a frame has armed stay armed
rendered(e, w) ==
    IF ~e.eggPhase THEN [noCanvas EXCEPT !.removing = canvas.removing]
    ELSE IF ~canvas.mounted \/ renderDeps(e, w) # renderDeps(egg, canvas.isWarming)
         THEN [renderEffect(e, w) EXCEPT !.removing = canvas.removing]
         ELSE [canvas EXCEPT !.isWarming = w]

\* a call of an egg operation: the store's egg becomes e
EggCall(op, e, w) ==
    /\ egg' = e
    /\ canvas' = rendered(e, w)
    /\ last' = [op |-> op, ok |-> e # egg]
    /\ UNCHANGED <<storeVars, now, timers, start, steps, app, main, cooldowns>>

\* onPointerDown of the canvas: setIsWarming(true); warmEgg()
PointerDown ==
    /\ canvas.mounted
    /\ EggCall("warmEgg", warmEgg(egg), TRUE)

\* onPointerUp and onPointerLeave of the canvas: setIsWarming(false)
PointerUp ==
    /\ canvas.mounted
    /\ canvas.isWarming
    /\ canvas' = rendered(egg, FALSE)
    /\ UNCHANGED <<storeVars, envVars, egg, app, main, cooldowns>>

\* the 500 ms interval armed while isWarming: warmEgg()
WarmRepeat ==
    /\ canvas.mounted
    /\ canvas.isWarming
    /\ EggCall("warmEgg", warmEgg(egg), canvas.isWarming)

\* the Warm, Talk, Sing and Steady buttons of App (part_001, 161-175): they
\* are rendered in the egg phase only; Warm and Talk are disabled while the
\* egg wobbles, Sing also while warmth < 60, Steady unless the egg wobbles
WarmEgg ==
    /\ egg.eggPhase
    /\ ~egg.isWobbling
    /\ EggCall("warmEgg", warmEgg(egg), canvas.isWarming)

TalkToEgg ==
    /\ egg.eggPhase
    /\ ~egg.isWobbling
    /\ egg.spawned < MaxParticles
    /\ EggCall("talkToEgg", talkToEgg(egg), canvas.isWarming)

SingToEgg ==
    /\ egg.eggPhase
    /\ ~(egg.isWobbling \/ egg.warmth < 60)
    /\ egg.spawned < MaxParticles
    /\ EggCall("singToEgg", singToEgg(egg), canvas.isWarming)

SteadyEgg ==
    /\ egg.eggPhase
    /\ egg.isWobbling
    /\ EggCall("steadyEgg", steadyEgg(egg), canvas.isWarming)

\* the wobble timer of App
TriggerWobble == EggCall("triggerWobble", triggerWobble(egg), canvas.isWarming)

\* the ids of the particles in the store
Ids(e) == {e.particles[k].id : k \in 1..Len(e.particles)}

\* the ids of the particles in the store, in the order forEach visits them
IdSeq(e) == [k \in 1..Len(e.particles) |-> e.particles[k].id]

\* the oldest callback of setTimeout(() => removeParticle(id), 0) fires; a
\* frame that found the particle out of view has armed it
RemoveParticle ==
    /\ canvas.removing # << >>
    /\ egg' = removeParticle(egg, Head(canvas.removing))
    /\ canvas' = [rendered(egg', canvas.isWarming)
                    EXCEPT !.removing = Tail(canvas.removing)]
    /\ last' = [op |-> "removeParticle", ok |-> egg'.particles # egg.particles]
    /\ UNCHANGED <<storeVars, now, timers, start, steps, app, main, cooldowns>>

\* whether the frame about to be drawn is the last of the hatching sequence
HatchDue == canvas.isHatching /\ canvas.hatchProgress + 1 >= HATCH_FRAMES

\* render(), called back by requestAnimationFrame: during the hatching
\* sequence hatchProgress grows by 0.01, and once it exceeds 1 hatch() is
\* called, which ends the egg phase and unmounts the canvas; otherwise every
\* particle floats up by one frame, and for each one that is out of view a
\* setTimeout callback is armed that will call removeParticle(id): one more
\* in every frame drawn until the particle is gone.  A callback armed with
\* 0 ms runs before more than MaxPending of them are waiting
Frame ==
    /\ canvas.mounted
    /\ IF HatchDue
       THEN /\ egg' = hatch(egg)
            /\ canvas' = [noCanvas EXCEPT !.removing = canvas.removing]
            /\ SetState(hatchling(state))
            /\ last' = [op |-> "hatch", ok |-> TRUE]
            /\ UNCHANGED <<now, timers, start, steps, app, main, cooldowns>>
       ELSE /\ (egg.particles # << >> /\ canvas.floated + 1 >= FloatFrames)
               => Len(canvas.removing) + Len(egg.particles) <= MaxPending
            /\ canvas' =
                 [canvas EXCEPT
                    !.hatchProgress = IF canvas.isHatching THEN @ + 1 ELSE @,
                    !.floated = IF egg.particles # << >>
                                THEN Min(FloatFrames, @ + 1) ELSE 0,
                    !.removing = IF egg.particles # << >>
                                    /\ canvas.floated + 1 >= FloatFrames
                                 THEN @ \o IdSeq(egg) ELSE @]
            /\ UNCHANGED <<storeVars, envVars, egg, app, main, cooldowns>>

\* eggs restored from storage: bond 90 or 95 after the first sessions
EggStarts ==
    {[hatchedEgg EXCEPT !.eggPhase = TRUE, !.bond = b] : b \in {90, 95}}

InitEgg ==
    /\ SetInit(initialState)
    /\ start = initialState
    /\ now = 0
    /\ timers = << >>
    /\ last = [op |-> "create", ok |-> TRUE]
    /\ steps = 0
    /\ egg \in EggStarts
    /\ canvas = renderEffect(egg, FALSE)
    /\ app = noApp
    /\ main = noMain
    /\ cooldowns = noCooldowns

NextEgg ==
    \/ PointerDown
    \/ PointerUp
    \/ WarmRepeat
    \/ WarmEgg
    \/ TalkToEgg
    \/ SingToEgg
    \/ SteadyEgg
    \/ TriggerWobble
    \/ RemoveParticle
    \/ Frame

\* requestAnimationFrame keeps calling render() back while the canvas is
\* shown, and a callback armed with setTimeout(..., 0) fires
SpecEgg ==
    InitEgg /\ [][NextEgg]_vars /\ WF_vars(Frame) /\ WF_vars(RemoveParticle)

----------------------------------------------------------------------------
(***************************************************************************)
(* The creature controls of App (part_001, 180-224): each button is        *)
(* disabled while the creature sleeps or while getCooldown, computed from  *)
(* the store's cooldowns and from currentTime, App's copy of the clock     *)
(* that a 1 s interval refreshes, is positive.  The cooldowns of the store *)
(* are not part of the store under src/; they follow their description: an *)
(* action takes effect only if its cooldown has passed, and then stamps    *)
(* cooldowns[action] with the time of the call.                            *)
(***************************************************************************)

ACTION_COOLDOWNS_MS ==
    [feed |-> 30000, giveWater |-> 25000, play |-> 45000, pet |-> 15000,
     teach |-> 60000]

\* Math.ceil(n / d) for n >= 0
Ceil(n, d) == (n + d - 1) \div d

\* getCooldown that rounds the remaining seconds down
getCooldownFloor(key, cds, currentTime) ==
    LET lastUsed == cds[key]
        delay == ACTION_COOLDOWNS_MS[key]
        remaining == Max(0, delay - (currentTime - lastUsed))
    IN remaining \div 1000

\* getCooldown (180-185): the seconds of cooldown the controls show
getCooldown(key, cds, currentTime) ==
    LET lastUsed == cds[key]
        delay == ACTION_COOLDOWNS_MS[key]
        remaining == Max(0, delay - (currentTime - lastUsed))
    IN Ceil(remaining, 1000)

\* whether the Feed, Water, Play or Pet button is enabled (196-207)
enabled(key, s, cds, currentTime) ==
    ~(s.isSleeping \/ getCooldown(key, cds, currentTime) > 0)

\* whether the button of a trick is enabled (216-221)
teachEnabled(trick, s, cds, currentTime) ==
    ~(s.isSleeping \/ s.tricks[trick].learned
        \/ getCooldown("teach", cds, currentTime) > 0)

\* the precondition creature actions share: awake and the cooldown passed
cooled(key, s, cds, t) ==
    /\ ~s.isSleeping
    /\ t - cds[key] >= ACTION_COOLDOWNS_MS[key]

\* the store's action for a key
storeCall(key, trick, s, t) ==
    CASE key = "feed" -> feed(s, t)
      [] key = "giveWater" -> giveWater(s, t)
      [] key = "play" -> play(s, t)
      [] key = "pet" -> pet(s, t)
      [] key = "teach" -> teach(s, t, trick)

\* whether the action would take effect, but for its cooldown
eligible(key, trick, s) ==
    IF key = "teach" THEN teachEligible(s, trick) ELSE awakeEligible(s)

----------------------------------------------------------------------------

(* The App component of part_001: its mount effects, the interval timers    *)
(* they arm, the day/night check, the wobble timer chain, and the cleanup   *)
(* on unmount.  A store update re-renders App at once, and React then runs  *)
(* again each effect of which a dependency has changed, before any timer    *)
(* callback can run: a step below includes those effect runs.               *)

\* period of the live tick of part_001: setInterval(..., 5000)
TICK_MS == 5000
\* period of the scheduler of part_000, and of checkTime: setInterval(..., 60000)
CHECK_MS == 60000

\* new Date().getHours(): the clock's zero is a local midnight
Hour(t) == (t \div HOUR_MS) % 24

\* the values the day/night effect depends on, as App rendered them
Seen(s, e) ==
    [eggPhase |-> e.eggPhase, energy |-> s.energy, isSleeping |-> s.isSleeping]

\* the call checkTime makes, with the night starting an hour late (hour > 22)
checkTimeCallLateNight(seen, t) ==
    LET hour == Hour(t)
        isNightTime == hour > 22 \/ hour < 6
    IN IF ~seen.eggPhase
       THEN IF isNightTime /\ ~seen.isSleeping /\ seen.energy < 30 * Unit
            THEN "sleep"
            ELSE IF ~isNightTime /\ seen.isSleeping /\ seen.energy > 80 * Unit
                 THEN "wakeUp"
                 ELSE "none"
       ELSE "none"

\* the call checkTime makes, from the values of its closure
checkTimeCall(seen, t) ==
    LET hour == Hour(t)
        isNightTime == hour >= 22 \/ hour < 6
    IN IF ~seen.eggPhase
       THEN IF isNightTime /\ ~seen.isSleeping /\ seen.energy < 30 * Unit
            THEN "sleep"
            ELSE IF ~isNightTime /\ seen.isSleeping /\ seen.energy > 80 * Unit
                 THEN "wakeUp"
                 ELSE "none"
       ELSE "none"

\* checkTime(): r.state is the store's state and r.checks the runs of
\* checkTime made so far in this step, each with the call it made, the values
\* of its closure (seen), and those of the store before and after it
checkTime(r, seen, e, t) ==
    LET call == checkTimeCall(seen, t)
        after == CASE call = "sleep" -> sleep(r.state, t)
                   [] call = "wakeUp" -> wakeUp(r.state, t)
                   [] OTHER -> r.state
        run == [op |-> call, hour |-> Hour(t), seen |-> seen,
                before |-> Seen(r.state, e), after |-> Seen(after, e)]
    IN [state |-> after, checks |-> Append(r.checks, run), checked |-> TRUE]

\* the re-render after a store update: while the values App renders differ
\* from those the day/night effect last ran with, the effect runs again
RECURSIVE flush(_, _, _, _)
flush(r, e, seen, t) ==
    IF Seen(r.state, e) = seen THEN r
    ELSE flush(checkTime(r, Seen(r.state, e), e, t), e, Seen(r.state, e), t)

\* an update of the store to s, not yet rendered
updated(s) == [state |-> s, checks |-> << >>, checked |-> FALSE]

\* what the offline catch-up does to the egg: after 0.01 hour or more it
\* cools the egg by 15 per hour, and an egg left wobbling for more than 0.1
\* hour loses 50 of stability, once
cooledEgg(s, e, t) ==
    LET elapsed == t - s.lastSavedTime
    IN IF e.eggPhase /\ elapsed >= MIN_ELAPSED_MS
       THEN [e EXCEPT
               !.warmth = Max(0, @ - (15 * (elapsed \div 60000)) \div 60),
               !.stability = IF e.isWobbling /\ elapsed > 10 * MIN_ELAPSED_MS
                             THEN Max(0, @ - 50) ELSE @]
       ELSE e

\* App after a step: r is the outcome of the step's effect runs
appAfter(r, e) ==
    [app EXCEPT !.seen = Seen(r.state, e), !.checks = r.checks,
                !.checked = r.checked]

\* the effects of App's mount on the store s: calculateOfflineDecay(), then
\* checkTime() with the values of the first render, then the re-render the
\* two have caused
mountEffects(s, e, t) ==
    LET seen == Seen(s, e)
    IN flush(checkTime(updated(calculateOfflineDecay(s, t)), seen, e, t),
             e, seen, t)

\* App once mounted at time t, r being the outcome of its mount effects:
\* useState(Date.now()), the intervals armed, the wobble chain started in
\* the egg phase
appMounted(r, e, t) ==
    [mounted |-> TRUE, currentTime |-> t, tick |-> TRUE, check |-> TRUE, wobble |-> e.eggPhase, seen |-> Seen(r.state, e),
     checks |-> r.checks, checked |-> TRUE]

\* App mounts: useState(Date.now()) and the 1 s interval of the clock the
\* controls read; calculateOfflineDecay() and the 5 s interval; checkTime()
\* with the values of the first render and the 60 s interval; in the egg
\* phase the first wobble timeout and the canvas of the egg; then the
\* re-render the decay has caused.  The timers of the event loop are armed
\* afterwards
Mount(armed) ==
    /\ app = noApp
    /\ LET r == mountEffects(state, egg, now)
       IN /\ SetState(r.state)
          /\ egg' = cooledEgg(state, egg, now)
          /\ app' = appMounted(r, egg, now)
    /\ canvas' = rendered(egg', FALSE)
    /\ last' = [op |-> "mount", ok |-> TRUE]
    /\ timers' = armed
    /\ UNCHANGED <<now, start, steps, main, cooldowns>>

\* App mounts where the intervals fire at any time: when each of them is due
\* is not kept
AppMount == Mount(timers)

\* a button of the creature's controls, which App renders once the egg has
\* hatched: the handler makes the store s, and in the re-render that follows
\* the day/night effect runs again if energy or isSleeping has changed (its
\* checkTime may call sleep() or wakeUp() at once)
AppCall(op, s, ok) ==
    /\ app.mounted
    /\ ~egg.eggPhase
    /\ LET r == flush(updated(s), egg, app.seen, now)
       IN /\ SetState(r.state)
          /\ app' = appAfter(r, egg)
    /\ Call(op, ok)
    /\ UNCHANGED <<now, start, egg, canvas, main>>

\* a click on an enabled button of part_001 calls the store's action: within
\* its cooldown the call is a no-op, otherwise it takes effect and a
\* successful use stamps the cooldown
Press(key, trick) ==
    LET ok == cooled(key, state, cooldowns, now) /\ eligible(key, trick, state)
    IN /\ AppCall(key, IF ok THEN storeCall(key, trick, state, now) ELSE state, ok)
       /\ cooldowns' = IF ok THEN [cooldowns EXCEPT ![key] = now] ELSE cooldowns
       /\ Schedule(ok)

\* the Feed, Water, Play and Pet buttons (196-207)
Click(key) ==
    /\ app.mounted
    /\ enabled(key, state, cooldowns, app.currentTime)
    /\ Press(key, "sit")

\* the button of a trick (215-222)
ClickTeach(trick) ==
    /\ app.mounted
    /\ teachEnabled(trick, state, cooldowns, app.currentTime)
    /\ Press("teach", trick)

\* the Play button (202-204)
AppPlay == Click("play")

\* the Sleep / Wake Up button (part_001 208, part_000 98): wakeUp on a
\* sleeping creature, sleep on one awake
ClickSleep ==
    /\ AppCall(IF isSleeping THEN "wakeUp" ELSE "sleep",
               IF isSleeping THEN wakeUp(state, now) ELSE sleep(state, now),
               TRUE)
    /\ UNCHANGED <<timers, cooldowns>>

AppSleep ==
    /\ ~isSleeping
    /\ ClickSleep

AppWakeUp ==
    /\ isSleeping
    /\ ClickSleep

\* the 1 s interval of App fires: setCurrentTime(Date.now())
ClockTick ==
    /\ app.mounted
    /\ app' = [app EXCEPT !.currentTime = now]
    /\ UNCHANGED <<storeVars, envVars, egg, canvas, main, cooldowns>>

\* the 5 s interval fires: updateStatsOverTime()
TickFire ==
    /\ app.mounted
    /\ app.tick
    /\ LET r == flush(updated(updateStatsOverTime(state, now)), egg, app.seen, now)
       IN /\ SetState(r.state)
          /\ app' = appAfter(r, egg)
    /\ last' = [op |-> "tick", ok |-> TRUE]
    /\ UNCHANGED <<now, timers, start, steps, egg, canvas, main, cooldowns>>

\* the 60 s interval fires: checkTime()
CheckFire ==
    /\ app.mounted
    /\ app.check
    /\ LET r == flush(checkTime(updated(state), app.seen, egg, now), egg, app.seen, now)
       IN /\ SetState(r.state)
          /\ app' = appAfter(r, egg)
    /\ last' = [op |-> "checkTime", ok |-> TRUE]
    /\ UNCHANGED <<now, timers, start, steps, egg, canvas, main, cooldowns>>

\* a wobble timeout fires: triggerWobble(), and attemptWobble() sets the next
WobbleFire ==
    /\ app # noApp
    /\ app.wobble
    /\ egg' = triggerWobble(egg)
    /\ app' = [app EXCEPT !.checks = << >>, !.checked = FALSE]
    /\ canvas' = IF canvas.mounted THEN rendered(egg', canvas.isWarming)
                                   ELSE canvas
    /\ last' = [op |-> "triggerWobble", ok |-> egg.eggPhase]
    /\ UNCHANGED <<storeVars, now, timers, start, steps, main, cooldowns>>

\* a frame of the canvas of the egg that App shows, short of the last frame
\* of the hatching sequence
AppFrame ==
    /\ app.mounted
    /\ ~HatchDue
    /\ Frame

\* the last frame of the hatching sequence in EggCanvas: hatch() ends the
\* egg phase, and App renders the creature in place of the egg
AppHatch ==
    /\ app.mounted
    /\ canvas.mounted
    /\ HatchDue
    /\ egg' = hatch(egg)
    /\ canvas' = [noCanvas EXCEPT !.removing = canvas.removing]
    /\ LET r == flush(updated(hatchling(state)), egg', app.seen, now)
       IN /\ SetState(r.state)
          /\ app' = appAfter(r, egg')
    /\ last' = [op |-> "hatch", ok |-> TRUE]
    /\ UNCHANGED <<now, timers, start, steps, main, cooldowns>>

\* App unmounts, and the canvas it shows with it: the cleanups clear the
\* three intervals and cancel the animation frame; the wobble effect returns
\* no cleanup
Unmount ==
    /\ app.mounted
    /\ app' = [app EXCEPT !.mounted = FALSE, !.tick = FALSE, !.check = FALSE,
                          !.checks = << >>, !.checked = FALSE]
    /\ canvas' = [noCanvas EXCEPT !.removing = canvas.removing]
    /\ last' = [op |-> "unmount", ok |-> TRUE]
    /\ UNCHANGED <<storeVars, now, timers, start, steps, egg, main, cooldowns>>

\* an hour passes
HourPasses ==
    /\ steps < MaxCalls
    /\ Advance(HOUR_MS)

\* an egg restored with bond 100, about to hatch
readyEgg == [hatchedEgg EXCEPT !.eggPhase = TRUE]

\* the creature the application is started on, and how long after it was
\* last saved: asleep or awake, rested or worn out, at hours on both sides of
\* 22:00 and 6:00
InitApp ==
    /\ \E s \in {initialState, neglected, sleep(neglected, neglected.lastSavedTime)},
            e \in {hatchedEgg, readyEgg}, away \in {0, 12, 13, 20, 21} :
         /\ e.eggPhase => s = initialState
         /\ SetInit(s)
         /\ start = s
         /\ egg = e
         /\ now = s.lastSavedTime + away * HOUR_MS
    /\ timers = << >>
    /\ last = [op |-> "create", ok |-> TRUE]
    /\ steps = 0
    /\ canvas = noCanvas
    /\ app = noApp
    /\ main = noMain
    /\ cooldowns = noCooldowns

NextApp ==
    \/ AppMount
    \/ steps < MaxCalls /\ AppPlay
    \/ steps < MaxCalls /\ AppSleep
    \/ steps < MaxCalls /\ AppWakeUp
    \/ TickFire
    \/ CheckFire
    \/ WobbleFire
    \/ ClockTick
    \/ AppFrame
    \/ AppHatch
    \/ Unmount
    \/ HourPasses
    \/ Elapse
    \/ Settle

SpecApp == InitApp /\ [][NextApp]_vars

----------------------------------------------------------------------------
(* The controls of part_001 in use: App is mounted on a hatched creature,   *)
(* the player clicks, the clock moves, and the intervals of App fire.       *)

\* the clock when App is mounted
ControlsStart == HOUR_MS

\* the stores App is mounted on: a fresh one, and one restored from a session
\* in which the creature was fed 29.5 s ago
ControlsStores ==
    {[s |-> Merge(initialState, [lastSavedTime |-> ControlsStart]),
      c |-> noCooldowns],
     [s |-> settleMood(feed(initialState, ControlsStart - 29500)),
      c |-> [noCooldowns EXCEPT !["feed"] = ControlsStart - 29500]]}

InitControls ==
    /\ \E r \in ControlsStores :
         LET m == mountEffects(r.s, hatchedEgg, ControlsStart)
         IN /\ SetInit(m.state)
            /\ start = m.state
            /\ cooldowns = r.c
            /\ app = appMounted(m, hatchedEgg, ControlsStart)
    /\ now = ControlsStart
    /\ timers = << >>
    /\ last = [op |-> "create", ok |-> TRUE]
    /\ steps = 0
    /\ egg = hatchedEgg
    /\ canvas = noCanvas
    /\ main = noMain

\* a click of the player, a movement of the clock or a callback of one of
\* App's two store intervals, while the session lasts
ControlsStep ==
    /\ steps < MaxCalls
    /\ \/ \E key \in CooledActions \ {"teach"} : Click(key)
       \/ \E trick \in TeachInputs : ClickTeach(trick)
       \/ ClickSleep
       \/ \E d \in {500, 12500, 25000} : Advance(d)
       \/ \E d \in Setbacks : ClockBack(d)
       \/ TickFire
       \/ CheckFire

NextControls ==
    \/ ControlsStep
    \/ ClockTick
    \/ Elapse
    \/ Settle

SpecControls == InitControls /\ [][NextControls]_vars

----------------------------------------------------------------------------
(* The application left running with no player interaction.  App mounts,    *)
(* which runs calculateOfflineDecay() and checkTime() once and arms its     *)
(* intervals.  The event loop then lets time pass until an interval is due  *)
(* and runs the callbacks that are due one after the other, each in a task  *)
(* of its own, in the order in which the intervals were armed.  In these    *)
(* specifications timers holds the intervals of App in that order: op names *)
(* the callback and left is the time until it runs next.                    *)

\* period of the clock of the controls in part_001: setInterval(..., 1000)
CLOCK_MS == 1000

\* whether the callback of interval op is the one the event loop runs next:
\* the interval is due and none armed before it is
Due(op) ==
    \E i \in 1..Len(timers) :
        /\ timers[i].op = op
        /\ timers[i].left = 0
        /\ \A j \in 1..(i - 1) : timers[j].left > 0

\* the intervals once the callback of op has run: op is due again a period
\* later; if the day/night effect has run again, its cleanup has cleared the
\* interval of checkTime and the effect has armed a new one
rearmed(op, period, again) ==
    LET fired == [i \in 1..Len(timers) |->
                    IF timers[i].op = op THEN [timers[i] EXCEPT !.left = period]
                                         ELSE timers[i]]
    IN IF again
       THEN SelectSeq(fired, LAMBDA x : x.op # "checkTime")
              \o <<[left |-> CHECK_MS, op |-> "checkTime"]>>
       ELSE fired

\* time passes until the next interval is due, while the application is
\* left running
IdlePass ==
    /\ timers # << >>
    /\ \A i \in 1..Len(timers) : timers[i].left > 0
    /\ LET d == CHOOSE d \in {timers[i].left : i \in 1..Len(timers)} :
                   \A i \in 1..Len(timers) : timers[i].left >= d
       IN /\ (now + d) - start.lastSavedTime <= IdleHours * HOUR_MS
          /\ now' = now + d
          /\ timers' = [i \in 1..Len(timers) |-> [timers[i] EXCEPT !.left = @ - d]]
    /\ UNCHANGED <<storeVars, last, start, steps, hostVars>>

\* the callback of interval op runs in a task of its own; r is the outcome
\* of the callback and of the re-render that follows it in the task
IdleRun(op, period, r) ==
    /\ app.mounted
    /\ Due(op)
    /\ SetState(r.state)
    /\ app' = appAfter(r, egg)
    /\ timers' = rearmed(op, period, Seen(r.state, egg) # app.seen)
    /\ last' = [op |-> op, ok |-> TRUE]
    /\ UNCHANGED <<now, start, steps, egg, canvas, main, cooldowns>>

\* the 1 s interval of part_001 (45-48): setCurrentTime(Date.now())
IdleClock ==
    /\ app.mounted
    /\ Due("clock")
    /\ app' = [app EXCEPT !.currentTime = now]
    /\ timers' = rearmed("clock", CLOCK_MS, FALSE)
    /\ UNCHANGED <<storeVars, now, last, start, steps, egg, canvas, main, cooldowns>>

\* the 5 s interval of part_001 (55-57): updateStatsOverTime()
LiveTick ==
    IdleRun("tick", TICK_MS,
            flush(updated(updateStatsOverTime(state, now)), egg, app.seen, now))

\* the 60 s interval of part_000 (32-35): updateStatsOverTime() and then
\* calculateOfflineDecay()
SchedulerTick ==
    IdleRun("tick", CHECK_MS,
            flush(updated(calculateOfflineDecay(updateStatsOverTime(state, now), now)),
                  egg, app.seen, now))

\* the 60 s interval of the day/night effect (part_001 78, part_000 54):
\* checkTime()
IdleCheck ==
    IdleRun("checkTime", CHECK_MS,
            flush(checkTime(updated(state), app.seen, egg, now), egg, app.seen, now))

\* the states an idle application starts from: the default one, awake and
\* asleep, and the restored one, awake and asleep
IdleStarts ==
    RestoredStates \cup {sleep(s, s.lastSavedTime) : s \in RestoredStates}

InitIdle ==
    /\ \E s \in IdleStarts :
         /\ SetInit(s)
         /\ now = s.lastSavedTime
         /\ start = s
    /\ timers = << >>
    /\ last = [op |-> "create", ok |-> TRUE]
    /\ steps = 0
    /\ NoHost

\* part_001: the clock of the controls, the 5-second live tick and checkTime
NextLive ==
    \/ Mount(<<[left |-> CLOCK_MS, op |-> "clock"], [left |-> TICK_MS, op |-> "tick"],
               [left |-> CHECK_MS, op |-> "checkTime"]>>)
    \/ IdlePass
    \/ IdleClock
    \/ LiveTick
    \/ IdleCheck

\* part_000: the 60-second scheduler and checkTime
NextScheduler ==
    \/ Mount(<<[left |-> CHECK_MS, op |-> "tick"],
               [left |-> CHECK_MS, op |-> "checkTime"]>>)
    \/ IdlePass
    \/ SchedulerTick
    \/ IdleCheck

SpecLive == InitIdle /\ [][NextLive]_vars
SpecScheduler == InitIdle /\ [][NextScheduler]_vars

----------------------------------------------------------------------------

(* The player's actions and the callbacks they arm, with the event loop     *)
(* running every callback that is due.  App (part_000) is mounted; time     *)
(* passes exactly as far as the oldest pending callback needs, which is     *)
(* less than the minute of App's intervals; steps counts the clicks of the  *)
(* player.                                                                  *)

InitSettle ==
    /\ \E s \in RestoredStates \cup {neglected} :
         LET m == mountEffects(s, hatchedEgg, s.lastSavedTime)
         IN /\ SetInit(m.state)
            /\ now = s.lastSavedTime
            /\ start = m.state
            /\ app = appMounted(m, hatchedEgg, s.lastSavedTime)
    /\ timers = << >>
    /\ last = [op |-> "create", ok |-> TRUE]
    /\ steps = 0
    /\ egg = hatchedEgg
    /\ canvas = noCanvas
    /\ main = noMain
    /\ cooldowns = noCooldowns

\* a click of the player on a button of App (part_000, 94-112), while the
\* player has clicks left: Feed, Water, Play and Pet are disabled while the
\* creature sleeps, the button of a trick also once the trick is learned, and
\* one button calls wakeUp on a sleeping creature and sleep on one awake
PlayerCall ==
    LET Button(op, s, ok) == AppCall(op, s, ok) /\ Schedule(ok) /\ UNCHANGED cooldowns
    IN
    /\ steps < MaxCalls
    /\ \/ ~isSleeping /\ Button("feed", feed(state, now), awakeEligible(state))
       \/ ~isSleeping
            /\ Button("giveWater", giveWater(state, now), awakeEligible(state))
       \/ ~isSleeping /\ Button("play", play(state, now), awakeEligible(state))
       \/ ~isSleeping /\ Button("pet", pet(state, now), awakeEligible(state))
       \/ \E trick \in TeachInputs :
            /\ ~isSleeping
            /\ ~tricks[trick].learned
            /\ Button("teach", teach(state, now, trick),
                      teachEligible(state, trick))
       \/ ClickSleep

NextSettle ==
    \/ PlayerCall
    \/ Settle
    \/ Elapse

\* setTimeout guarantees that a callback runs once its delay has passed
SpecSettle ==
    InitSettle /\ [][NextSettle]_vars /\ WF_vars(Elapse) /\ WF_vars(Settle)

----------------------------------------------------------------------------
(***************************************************************************)
(* The Electron main process (src/electron.cjs) and the two channels the   *)
(* preload script gives the renderer (src/unnamed/part_002): save-state    *)
(* keeps the payload in memory, a 30 s interval and the before-quit        *)
(* handler write it to the save file, and load-state reads the save file.  *)
(* The interval may fire between any two messages.  The save file outlives *)
(* the process: a later run starts with nothing in memory and the file as  *)
(* the earlier run left it.  A file that is not accessible makes           *)
(* readFileSync and writeFileSync throw; main.threw tells whether the     *)
(* handler that ran last ended in an exception nothing caught.             *)
(***************************************************************************)

\* the payloads the renderer sends: saveState(data) passes on what it is
\* given, the empty string like any other
Payloads == {"", "egg", "pet"}

\* what JavaScript's if (v) takes as true, for null and strings
truthy(v) == v # null /\ v # String("")

\* the most recent element of a sequence
Latest(seq) == seq[Len(seq)]

\* fs.existsSync(path)
existsSync(f) == f.exists

\* fs.readFileSync(path, "utf8"): the contents, or an exception if the file
\* is missing or not accessible
readFileSync(f) ==
    IF f.exists /\ f.accessible THEN [threw |-> FALSE, value |-> String(f.data)]
    ELSE [threw |-> TRUE, value |-> null]

\* whether fs.writeFileSync(path, data) throws
writeThrows(f) == f.exists /\ ~f.accessible

\* fs.writeFileSync(path, data): the file afterwards; the write of a file
\* that is not accessible throws and leaves it as it is
writeFileSync(f, v) ==
    IF writeThrows(f) THEN f
    ELSE [exists |-> TRUE, accessible |-> TRUE, data |-> v[1]]

\* the load-state handler without its try/catch
loadStateUncaught(f) ==
    IF existsSync(f) THEN readFileSync(f)
    ELSE [threw |-> FALSE, value |-> null]

\* the load-state handler: what ipcRenderer.invoke('load-state') resolves to,
\* and whether the handler threw instead
loadState(f) ==
    IF existsSync(f)
    THEN LET read == readFileSync(f)
         IN IF read.threw THEN [threw |-> FALSE, value |-> null] ELSE read
    ELSE [threw |-> FALSE, value |-> null]

\* the save-state listener: currentState = dataStr
saveState(m, p) ==
    [m EXCEPT !.currentState = String(p), !.received = Append(@, p),
              !.threw = FALSE]

\* the interval callback without its test of currentState
autoSaveUnguarded(m) ==
    [m EXCEPT !.file = writeFileSync(m.file, IF m.currentState = null
                                             THEN String("")
                                             ELSE m.currentState),
              !.threw = writeThrows(m.file)]

\* the callback of the 30 s interval: an exception of the write leaves it
autoSave(m) ==
    IF truthy(m.currentState)
    THEN [m EXCEPT !.file = writeFileSync(m.file, m.currentState),
                   !.threw = writeThrows(m.file)]
    ELSE [m EXCEPT !.threw = FALSE]

\* a before-quit handler that leaves the flush to the 30 s interval
beforeQuitNoFlush(m) == [m EXCEPT !.threw = FALSE]

\* the before-quit handler: an exception of the write leaves it
beforeQuit(m) ==
    IF truthy(m.currentState)
    THEN [m EXCEPT !.file = writeFileSync(m.file, m.currentState),
                   !.threw = writeThrows(m.file)]
    ELSE [m EXCEPT !.threw = FALSE]

\* a step of the main process: the store is not involved
MainStep(op, m) ==
    /\ main.running
    /\ main' = m
    /\ last' = [op |-> op, ok |-> TRUE]
    /\ UNCHANGED <<storeVars, now, timers, start, egg, canvas, app, cooldowns>>

\* the renderer calls electronAPI.saveState(p)
SaveState(p) ==
    /\ steps < MaxCalls
    /\ steps' = steps + 1
    /\ MainStep("save-state", saveState(main, p))

\* the renderer calls electronAPI.loadState()
LoadState ==
    /\ MainStep("load-state",
                [main EXCEPT !.reply = [asked |-> TRUE] @@ loadState(main.file),
                             !.threw = loadState(main.file).threw])
    /\ UNCHANGED steps

\* the 30 s interval fires
AutoSave ==
    /\ MainStep("auto-save", autoSave(main))
    /\ UNCHANGED steps

\* the application quits: before-quit runs and the process ends
Quit ==
    /\ MainStep("before-quit", [beforeQuit(main) EXCEPT !.running = FALSE])
    /\ UNCHANGED steps

\* the application is started again: the module's variables are fresh
Launch ==
    /\ ~main.running
    /\ steps < MaxCalls
    /\ steps' = steps + 1
    /\ main' = [noMain EXCEPT !.running = TRUE, !.file = main.file]
    /\ last' = [op |-> "launch", ok |-> TRUE]
    /\ UNCHANGED <<storeVars, now, timers, start, egg, canvas, app, cooldowns>>

\* the save file a first run may find: none, one an earlier run wrote, or one
\* that cannot be read
SaveFiles ==
    {[exists |-> FALSE, accessible |-> TRUE, data |-> ""],
     [exists |-> TRUE, accessible |-> TRUE, data |-> "old"],
     [exists |-> TRUE, accessible |-> FALSE, data |-> "old"]}

InitMain ==
    /\ SetInit(initialState)
    /\ now = 0
    /\ timers = << >>
    /\ last = [op |-> "create", ok |-> TRUE]
    /\ start = initialState
    /\ steps = 0
    /\ egg = hatchedEgg
    /\ canvas = noCanvas
    /\ app = noApp
    /\ \E f \in SaveFiles : main = [noMain EXCEPT !.running = TRUE, !.file = f]
    /\ cooldowns = noCooldowns

NextMain ==
    \/ \E p \in Payloads : SaveState(p)
    \/ LoadState
    \/ AutoSave
    \/ Quit
    \/ Launch

SpecMain == InitMain /\ [][NextMain]_vars

----------------------------------------------------------------------------

(* Properties *)

Points(n) == n * Unit

InRange(v) == 0 <= v /\ v <= Points(100)

\* C1: in every state reachable by any sequence of feed, giveWater, play, pet,
\* teach, sleep, wakeUp, updateStatsOverTime, calculateOfflineDecay and
\* mood-settle callbacks, with any elapsed times between them, hunger, thirst,
\* happiness, energy, health and every trick's progress lie in [0,100]
C1_StatsInRange ==
    /\ InRange(hunger)
    /\ InRange(thirst)
    /\ InRange(happiness)
    /\ InRange(energy)
    /\ InRange(health)
    /\ \A t \in Trick : InRange(tricks[t].progress)

\* a decay pass has driven thirst below 0 and it was held at 0, while hunger
\* stopped inside the range
C1_DecayClamped ==
    /\ last.op = "calculateOfflineDecay"
    /\ last.ok
    /\ thirst = 0
    /\ 0 < hunger
    /\ hunger < Points(20)

\* C2: a feed() called again less than 30000 ms after the last successful
\* feed() is a no-op: hunger is unchanged after the second call
C2_FeedCooldown ==
    [][(/\ Feed
        /\ last.op = "feed"
        /\ last.ok
        /\ now >= lastSavedTime
        /\ now - lastSavedTime < 30 * 1000) => hunger' = hunger]_vars

\* C3: feed, giveWater, play, pet or teach called while isSleeping, and teach
\* called on an already-learned trick or with energy < 20 or happiness < 40,
\* leaves every field of the state unchanged, lastSavedTime and mood included
C3_IneligibleInert ==
    [][/\ (isSleeping /\ (Feed \/ GiveWater \/ Play \/ Pet
                            \/ \E trick \in TeachInputs : Teach(trick)))
            => UNCHANGED storeVars
       /\ \A trick \in TeachInputs :
            (/\ Teach(trick)
             /\ \/ tricks[trick].learned
                \/ energy < Points(20)
                \/ happiness < Points(40))
            => UNCHANGED storeVars]_vars

\* teach has been called, awake and with enough energy and happiness, on a
\* trick that is already learned, and was refused
C3_TaughtLearnedTrick ==
    /\ last.op = "teach"
    /\ ~last.ok
    /\ ~isSleeping
    /\ energy >= Points(20)
    /\ happiness >= Points(40)
    /\ \E t \in TeachInputs : tricks[t].learned

\* C4: a call of feed, giveWater, play, pet or teach whose preconditions failed
\* causes no later state change: the callback it left behind changes nothing
C4_NoDeferredEffect ==
    [][(Settle /\ ~Head(timers).ok) => UNCHANGED storeVars]_vars

\* C5: lastSavedTime never decreases, whatever the clock readings are
C5_LastSavedNeverDecreases ==
    [][lastSavedTime' >= lastSavedTime]_vars

\* a and b agree within a hundredth of a stat point
Near(a, b) == a - b <= Unit \div 100 /\ b - a <= Unit \div 100

\* C6: from the same state, the live ticks of one hour (720 ticks, 5 seconds
\* apart) leave the same hunger, thirst, happiness, energy and health as one
\* calculateOfflineDecay covering that hour
C6_LiveEqualsOffline ==
    (last.op = "tick" /\ now - start.lastSavedTime = HOUR_MS)
    => LET offline == calculateOfflineDecay(start, start.lastSavedTime + HOUR_MS)
       IN /\ Near(hunger, offline.hunger)
          /\ Near(thirst, offline.thirst)
          /\ Near(happiness, offline.happiness)
          /\ Near(energy, offline.energy)
          /\ Near(health, offline.health)

\* C7: with no player interaction, after the scheduler firings covering an
\* elapsed time T, hunger, thirst, happiness and energy have decreased by their
\* hourly rate times T (energy has increased by 20 per hour while asleep), up
\* to clamping
C7_IdleDecay ==
    last.op = "tick"
    => LET T == (now - start.lastSavedTime) \div Grain
       IN /\ hunger = Max(0, start.hunger - 10 * T)
          /\ thirst = Max(0, start.thirst - 15 * T)
          /\ happiness = Max(0, start.happiness - 5 * T)
          /\ energy = IF isSleeping THEN Min(Points(100), start.energy + 20 * T)
                      ELSE Max(0, start.energy - 8 * T)

\* C8: calculateOfflineDecay changes nothing (stats, mood, lastSavedTime) when
\* the time elapsed since lastSavedTime is less than 0.01 hour, zero and
\* negative elapsed times included
C8_ShortElapsedNoOp ==
    [][(CalculateOfflineDecay /\ now - lastSavedTime < HOUR_MS \div 100)
          => UNCHANGED storeVars]_vars

\* calculateOfflineDecay has been called with the clock behind lastSavedTime
C8_CalledWithNegativeElapsed ==
    /\ last.op = "calculateOfflineDecay"
    /\ ~last.ok
    /\ now < lastSavedTime

\* C9: for an elapsed time h >= 0.01 hour calculateOfflineDecay sets hunger to
\* clamp(hunger - 10h), thirst to clamp(thirst - 15h), happiness to
\* clamp(happiness - 5h), energy to clamp(energy - 8h) when awake and
\* clamp(energy + 20h) when asleep, sets lastSavedTime to now and leaves tricks
\* and isSleeping unchanged
C9_DecayAmounts ==
    [][(CalculateOfflineDecay /\ now - lastSavedTime >= HOUR_MS \div 100)
          => LET h == (now - lastSavedTime) \div Grain
             IN /\ hunger' = Max(0, Min(Points(100), hunger - 10 * h))
                /\ thirst' = Max(0, Min(Points(100), thirst - 15 * h))
                /\ happiness' = Max(0, Min(Points(100), happiness - 5 * h))
                /\ energy' = IF isSleeping
                             THEN Max(0, Min(Points(100), energy + 20 * h))
                             ELSE Max(0, Min(Points(100), energy - 8 * h))
                /\ lastSavedTime' = now
                /\ tricks' = tricks
                /\ isSleeping' = isSleeping]_vars

\* a decay pass has run on a sleeping creature and its energy has risen to a
\* value inside the range, while hunger has fallen
C9_DecayedAsleep ==
    /\ last.op = "calculateOfflineDecay"
    /\ last.ok
    /\ isSleeping
    /\ lastSavedTime = now
    /\ energy > start.energy
    /\ energy < Points(100)
    /\ hunger < start.hunger

\* C10: in every reachable state health =
\* clamp(100 - (max(0,20-hunger) + max(0,20-thirst) + 0.5*max(0,20-happiness)))
C10_HealthDerived ==
    health = Max(0, Min(Points(100),
                        Points(100) - (Max(0, Points(20) - hunger)
                                       + Max(0, Points(20) - thirst)
                                       + Max(0, Points(20) - happiness) \div 2)))

\* the creature has been fed while thirsty and unhappy enough for both
\* penalties, the half-weight one included, to count
C10_FedWhileNeglected ==
    /\ last.op = "feed"
    /\ last.ok
    /\ thirst < Points(20)
    /\ happiness < Points(20)
    /\ health < Points(100)

\* C11: the mood derived from a state is sleeping if isSleeping; else sick if
\* health < 40; else sad if happiness < 40 or hunger < 30 or thirst < 30; else
\* happy if happiness > 70 and health > 70; else neutral.  It is never eating,
\* drinking or playing, and health < 40 gives sick whatever the other stats
C11_MoodPriority ==
    last.op = "determineMood"
    => /\ mood \in {"sleeping", "sick", "sad", "happy", "neutral"}
       /\ mood = "sleeping" <=> isSleeping
       /\ mood = "sick" <=> (~isSleeping /\ health < Points(40))
       /\ mood = "sad" <=> (/\ ~isSleeping
                            /\ health >= Points(40)
                            /\ \/ happiness < Points(40)
                               \/ hunger < Points(30)
                               \/ thirst < Points(30))
       /\ mood = "happy" <=> (/\ ~isSleeping
                              /\ health >= Points(40)
                              /\ happiness >= Points(40)
                              /\ hunger >= Points(30)
                              /\ thirst >= Points(30)
                              /\ happiness > Points(70)
                              /\ health > Points(70))

\* the mood of an awake creature with health 30 has been derived while the
\* sad test held as well (hunger 20), and again with happiness 90: both sick
C11_SickTakesPrecedence ==
    /\ last.op = "determineMood"
    /\ ~isSleeping
    /\ health = Points(30)
    /\ hunger = Points(20)
    /\ happiness = Points(90)
    /\ start.mood = "eating"
    /\ mood = "sick"


\* the actions that set a transient mood and arm a mood-settle callback
PlayerActions == {"feed", "giveWater", "play", "pet", "teach"}

\* C12: after a successful feed, giveWater, play, pet or teach the mood
\* eventually equals determineMood of the current state, and once the player
\* makes no further call it equals it for ever: the mood is not eating,
\* drinking or playing for ever
C12_TransientMoodsSettle ==
    /\ (last.op \in PlayerActions /\ last.ok) ~> (mood = determineMood(state))
    /\ <>[](mood = determineMood(state))

\* a neglected creature has been fed, nothing else was called, and the
\* callback of that feed has replaced eating by the derived mood, sad
C12_FedThenSettled ==
    /\ steps = 1
    /\ last = [op |-> "settle", ok |-> TRUE]
    /\ start.mood = "sad"
    /\ hunger = start.hunger + Points(30)
    /\ timers = << >>
    /\ mood = "sad"


\* C13: teach(trick) called awake, with energy >= 20 and happiness >= 40, on a
\* trick not yet learned adds 15 to its progress when happiness > 80 and 5
\* otherwise, capped at 100, sets learned exactly when the new progress
\* is >= 100, and subtracts 15 from energy; teach of a learned trick changes
\* nothing and its progress stays 100
C13_TeachProgress ==
    [][\A trick \in TeachInputs :
         Teach(trick) =>
           IF tricks[trick].learned
           THEN UNCHANGED storeVars /\ tricks'[trick].progress = Points(100)
           ELSE (~isSleeping /\ energy >= Points(20) /\ happiness >= Points(40))
                => LET bonus == IF happiness > Points(80) THEN Points(15)
                                ELSE Points(5)
                       raised == tricks[trick].progress + bonus
                   IN /\ tricks'[trick].progress =
                           (IF raised > Points(100) THEN Points(100) ELSE raised)
                      /\ tricks'[trick].learned <=> raised >= Points(100)
                      /\ energy' = energy - Points(15)
                      /\ \A other \in Trick \ {trick} :
                           tricks'[other] = tricks[other]]_vars

\* sit stood at progress 90 and the creature's happiness above 80: one lesson
\* has taken it to 100 and learned, for 15 points of energy
C13_LessonCompletesTrick ==
    /\ last = [op |-> "teach", ok |-> TRUE]
    /\ start.tricks["sit"] = [learned |-> FALSE, progress |-> Points(90)]
    /\ tricks["sit"] = [learned |-> TRUE, progress |-> Points(100)]
    /\ energy = start.energy - Points(15)
    /\ steps = 1


\* C14: across any sequence of operations a learned trick stays learned, the
\* progress of a trick never decreases, and a trick is learned exactly when
\* its progress is 100
C14_LearningMonotonic ==
    /\ [](\A t \in Trick : tricks[t].learned <=> tricks[t].progress = Points(100))
    /\ [][\A t \in Trick :
            /\ tricks[t].learned => tricks'[t].learned
            /\ tricks'[t].progress >= tricks[t].progress]_vars

\* sit has been learned and, after it, a lesson of spin was given
C14_LearnedThenTaughtAnother ==
    /\ tricks["sit"].learned
    /\ tricks["sit"].progress = Points(100)
    /\ last = [op |-> "teach", ok |-> TRUE]
    /\ tricks["spin"].progress > 0
    /\ ~tricks["spin"].learned


\* v raised by d points and held inside [0,100]
Bounded(v, d) == Max(0, Min(Points(100), v + Points(d)))

\* C15: called on an awake creature, feed adds 30 to hunger, giveWater adds 40
\* to thirst, play adds 20 to happiness and subtracts 10 from energy, pet adds
\* 10 to happiness, each clamped to [0,100] and with the other three of these
\* stats unchanged; the mood becomes eating, drinking, playing, happy
\* respectively and lastSavedTime becomes the current time
C15_ActionEffects ==
    [][~isSleeping =>
         /\ Feed => /\ hunger' = Bounded(hunger, 30)
                    /\ UNCHANGED <<thirst, happiness, energy>>
                    /\ mood' = "eating"
         /\ GiveWater => /\ thirst' = Bounded(thirst, 40)
                         /\ UNCHANGED <<hunger, happiness, energy>>
                         /\ mood' = "drinking"
         /\ Play => /\ happiness' = Bounded(happiness, 20)
                    /\ energy' = Bounded(energy, -10)
                    /\ UNCHANGED <<hunger, thirst>>
                    /\ mood' = "playing"
         /\ Pet => /\ happiness' = Bounded(happiness, 10)
                   /\ UNCHANGED <<hunger, thirst, energy>>
                   /\ mood' = "happy"
         /\ (Feed \/ GiveWater \/ Play \/ Pet)
               => /\ lastSavedTime' = now
                  /\ UNCHANGED <<tricks, isSleeping>>]_vars

\* play has been called with less than 10 energy left and more than 80
\* happiness: energy was held at 0 and happiness at 100
C15_PlayedWhenExhausted ==
    /\ last = [op |-> "play", ok |-> TRUE]
    /\ energy = 0
    /\ happiness = Points(100)
    /\ mood = "playing"
    /\ lastSavedTime = now
    /\ now > start.lastSavedTime


\* C18: sleep() sets isSleeping and the mood sleeping; wakeUp() clears
\* isSleeping and sets the mood to determineMood of the current stats with
\* isSleeping false; both leave hunger, thirst, happiness, energy, health and
\* tricks unchanged
C18_SleepWakeFrame ==
    [][/\ Sleep => /\ isSleeping'
                   /\ mood' = "sleeping"
       /\ WakeUp => /\ ~isSleeping'
                    /\ mood' = determineMood([state EXCEPT !.isSleeping = FALSE])
       /\ (Sleep \/ WakeUp)
             => UNCHANGED <<hunger, thirst, happiness, energy, health, tricks>>]_vars

\* the creature was put to sleep, recovered energy while its thirst ran out,
\* and wakeUp has woken it sad
C18_WokenSad ==
    /\ last = [op |-> "wakeUp", ok |-> TRUE]
    /\ ~isSleeping
    /\ energy > start.energy
    /\ thirst = 0
    /\ mood = "sad"


\* C16: eggPhase is true from creation until hatch is invoked, hatch is
\* invoked only with bond >= 100 and ends the egg phase, and once eggPhase is
\* false it is false in every later state, whatever operations are called
C16_HatchOneWay ==
    /\ [][~egg.eggPhase => ~egg'.eggPhase]_vars
    /\ [][(egg.eggPhase /\ ~egg'.eggPhase)
             => (last'.op = "hatch" /\ egg.bond >= 100)]_vars
    /\ [][(last'.op = "hatch" /\ last' # last)
             => (egg.eggPhase /\ egg.bond >= 100 /\ ~egg'.eggPhase)]_vars

\* the egg has hatched, and the wobble timer has since called triggerWobble,
\* which was refused
C16_WobbleAfterHatch ==
    /\ ~egg.eggPhase
    /\ egg.bond = 100
    /\ ~canvas.mounted
    /\ last = [op |-> "triggerWobble", ok |-> FALSE]
    /\ ~egg.isWobbling

\* C17: once bond >= 100 in the egg phase, with the renderer drawing frames,
\* hatch() is eventually invoked (the egg phase ends), also while warmth,
\* stability, isWobbling, particles or isWarming keep changing
C17_HatchEventually ==
    (egg.eggPhase /\ egg.bond >= 100) ~> ~egg.eggPhase


\* the local hour h lies in [22:00, 06:00)
Night(h) == h >= 22 \/ h < 6

\* the two trigger conditions of the day/night scheduler, at hour h on the
\* values v: night, awake and energy < 30; day, asleep and energy > 80
Triggers(h, v) ==
    \/ Night(h) /\ ~v.isSleeping /\ v.energy < Points(30)
    \/ ~Night(h) /\ v.isSleeping /\ v.energy > Points(80)

\* the calls a run c of checkTime may make: sleep() only at night on a
\* creature awake with energy < 30, wakeUp() only by day on one asleep with
\* energy > 80, and neither in the egg phase
CallsOnlyWhenDue(c) ==
    /\ c.op = "sleep"
         => (Night(c.hour) /\ ~c.before.isSleeping /\ c.before.energy < Points(30))
    /\ c.op = "wakeUp"
         => (~Night(c.hour) /\ c.before.isSleeping /\ c.before.energy > Points(80))
    /\ c.before.eggPhase => c.op = "none"

\* C19 as stated: the day/night scheduler calls sleep() only when the local
\* hour is in [22,6) and the creature is awake with energy < 30, calls
\* wakeUp() only when the hour is outside [22,6) and the creature is asleep
\* with energy > 80, and calls neither in the egg phase; after every
\* scheduler check the state is in neither of the two trigger conditions
C19_NoTriggerAfterCheck ==
    app # noApp =>
        \A i \in 1..Len(app.checks) :
            /\ CallsOnlyWhenDue(app.checks[i])
            /\ ~Triggers(app.checks[i].hour, app.checks[i].after)

\* C19: the day/night scheduler calls sleep() only when the local hour is in
\* [22,6) and the creature is awake with energy < 30, calls wakeUp() only when
\* the hour is outside [22,6) and the creature is asleep with energy > 80, and
\* calls neither in the egg phase.  After every check of the scheduler that
\* ran on a hatched creature with the values the store holds, and at the end
\* of every task in which the scheduler has checked on a hatched creature,
\* the state is in neither of the two trigger conditions
C19_DayNightScheduler ==
    /\ [](app # noApp =>
            \A i \in 1..Len(app.checks) :
               LET c == app.checks[i]
               IN /\ CallsOnlyWhenDue(c)
                  /\ (~c.before.eggPhase /\ c.seen = c.before)
                       => ~Triggers(c.hour, c.after))
    /\ [][(\/ AppMount
           \/ CheckFire
           \/ (AppPlay \/ AppSleep \/ AppWakeUp \/ TickFire \/ AppHatch)
                 /\ app'.checked)
            => (~egg'.eggPhase => ~Triggers(Hour(now'), Seen(state, egg)'))]_vars

\* the application was started at 6 o'clock on a creature saved asleep with
\* energy 28: the check of the first render ran on 28 and did nothing, while
\* the decay pass on mount had raised the energy above 80, and the check of
\* the re-render has called wakeUp(), which a third check has followed
C19_WokenOnMount ==
    /\ app # noApp
    /\ last.op = "mount"
    /\ start.isSleeping
    /\ start.energy < Points(30)
    /\ Len(app.checks) = 3
    /\ app.checks[1].op = "none"
    /\ app.checks[1].seen # app.checks[1].before
    /\ Triggers(app.checks[1].hour, app.checks[1].after)
    /\ app.checks[2].op = "wakeUp"
    /\ app.checks[2].hour = 6
    /\ app.checks[3].op = "none"
    /\ app.checks[3].seen = app.checks[3].before
    /\ ~isSleeping
    /\ energy > Points(80)


\* C20: once App has unmounted, no timer the application started invokes a
\* store operation: neither the live-decay tick, nor the day/night check, nor
\* the egg-wobble chain, nor a pending mood-settle callback
C20_NoTimerAfterUnmount ==
    [][(app # noApp /\ ~app.mounted)
          => ~(TickFire \/ CheckFire \/ WobbleFire \/ Settle)]_vars


\* C24: when a creature action is performed less than 2 seconds after an
\* earlier one, the earlier action's mood-settle callback does not overwrite
\* the mood the later action has set.  The callback of the earlier action
\* fires; the most recent call is the later action, so no sleep, wakeUp or
\* decay pass has come since; its own callback is due in less than 2 seconds,
\* which is also how far apart the two actions were: the mood stays
C24_SupersededCallbackInert ==
    [][(/\ Settle
        /\ Head(timers).ok
        /\ last.op \in PlayerActions
        /\ last.ok
        /\ Len(timers) >= 2
        /\ timers[Len(timers)].left > 0
        /\ timers[Len(timers)].left < SETTLE_DELAY_MS) => mood' = mood]_vars

\* C26: in every reachable state the mood is sleeping exactly when the
\* creature is asleep, whatever the interleaving of actions, sleep, wakeUp,
\* decay passes and delayed mood-settle callbacks
C26_SleepingMoodIffAsleep ==
    (mood = "sleeping") <=> isSleeping

\* a callback armed by an action that took effect, hence before the creature
\* fell asleep, has fired while it sleeps
C26_CallbackFiredAsleep ==
    /\ last = [op |-> "settle", ok |-> TRUE]
    /\ isSleeping
    /\ mood = "sleeping"

\* C30: feed, giveWater, play, pet, sleep, wakeUp, updateStatsOverTime and
\* calculateOfflineDecay never change tricks, and teach(t) changes no entry of
\* tricks but the one of t; feed, giveWater, play, pet and teach never change
\* isSleeping; updateStatsOverTime changes nothing but lastSavedTime.  Each
\* part is stated from the change: a step that changes what an operation must
\* leave alone is not a step of that operation
C30_ActionFrames ==
    [][/\ (tricks' # tricks)
          => ~(Feed \/ GiveWater \/ Play \/ Pet \/ Sleep \/ WakeUp
                 \/ UpdateStatsOverTime \/ CalculateOfflineDecay)
       /\ \A u \in Trick :
            (tricks'[u] # tricks[u])
            => \A t \in Trick \ {u} : ~Teach(t)
       /\ (isSleeping' # isSleeping)
          => ~(Feed \/ GiveWater \/ Play \/ Pet \/ \E t \in Trick : Teach(t))
       /\ (<<hunger, thirst, happiness, energy, health, mood, tricks,
               isSleeping>>' # <<hunger, thirst, happiness, energy, health,
                                 mood, tricks, isSleeping>>)
          => ~UpdateStatsOverTime]_vars

\* a lesson has just advanced one trick while another trick is partly trained,
\* and the clock has moved since the state was restored
C30_TaughtSecondTrick ==
    /\ last = [op |-> "teach", ok |-> TRUE]
    /\ \E t, u \in Trick :
         /\ t # u
         /\ tricks[t].progress > 0
         /\ tricks[u].progress > 0
         /\ ~tricks[u].learned
    /\ lastSavedTime = now
    /\ now > start.lastSavedTime

C22_SaveLoadRoundTrip ==
    [][(LoadState /\ main.received # << >>)
       => main'.reply.value = String(Latest(main.received))]_vars

\* C23: the load-state handler never fails: it returns the save file's
\* contents when the file exists and can be read, and null when the file is
\* missing or reading it raises an error
C23_LoadNeverFails ==
    [][LoadState
       => (/\ ~main'.reply.threw
           /\ main'.reply.value =
                 IF main.file.exists /\ main.file.accessible
                 THEN String(main.file.data)
                 ELSE null)]_vars

\* a load-state request has been answered with null because reading the
\* existing save file raised an error
C23_UnreadableFileLoaded ==
    /\ last.op = "load-state"
    /\ main.reply.asked
    /\ main.reply.value = null
    /\ main.file.exists
    /\ ~main.file.accessible

\* C29: the main process changes the save file only in its auto-save and
\* before-quit handlers and only to the payload of the most recent save-state
\* message of the run; as long as no save-state message has been received in
\* the run, no step writes or truncates the file
C29_WritesOnlyLatestPayload ==
    [][(main'.file # main.file)
       => (/\ AutoSave \/ Quit
           /\ main.received # << >>
           /\ main'.file.exists
           /\ main'.file.data = Latest(main.received))]_vars

\* the interval has fired in a run that has received no save-state message,
\* and the file an earlier run wrote is still there
C29_AutoSaveBeforeAnyMessage ==
    /\ last.op = "auto-save"
    /\ main.received = << >>
    /\ main.file.exists
    /\ main.file.data \in Payloads

\* C27: the egg renderer never invokes hatch() while bond < 100, and a run of
\* its render loop invokes hatch() at most once: the egg phase ends only in a
\* frame of a renderer that is in its hatching sequence with bond at 100, and
\* once it has ended no further frame is drawn
C27_RendererHatchesOnce ==
    [][/\ (egg.eggPhase /\ ~egg'.eggPhase)
          => (Frame /\ canvas.isHatching /\ egg.bond >= 100)
       /\ ~egg.eggPhase => ~Frame]_vars

\* the renderer has called hatch(): the egg phase is over and the canvas gone
C27_RendererHasHatched ==
    /\ last = [op |-> "hatch", ok |-> TRUE]
    /\ ~egg.eggPhase
    /\ egg.bond = 100
    /\ ~canvas.mounted

\* C25: every particle appended to the store in the egg phase is eventually
\* removed (removeParticle is called with its id) or the egg phase ends, with
\* the renderer drawing frames, also while warmth, bond, stability, isWobbling,
\* isWarming or other particles keep changing
C25_ParticleEventuallyRemoved ==
    \A id \in 0..(MaxParticles - 1) :
        (egg.eggPhase /\ id \in Ids(egg)) ~> (~egg.eggPhase \/ id \notin Ids(egg))

\* C28: while the UI clock is not ahead of the real clock, the controls enable
\* the button of a creature action only if the creature is awake and the time
\* since cooldowns[action] is at least the cooldown of the action
C28_ButtonsRespectCooldowns ==
    app.currentTime <= now =>
        /\ \A key \in CooledActions \ {"teach"} :
             enabled(key, state, cooldowns, app.currentTime)
             => (~isSleeping /\ now - cooldowns[key] >= ACTION_COOLDOWNS_MS[key])
        /\ \A trick \in Trick :
             teachEnabled(trick, state, cooldowns, app.currentTime)
             => (/\ ~isSleeping
                 /\ now - cooldowns["teach"] >= ACTION_COOLDOWNS_MS["teach"])

\* the Feed button is enabled again after its cooldown has run out, on a UI
\* clock that lags behind, while the Pet button is still disabled
C28_FeedEnabledPetCooling ==
    /\ cooldowns["feed"] > 0
    /\ enabled("feed", state, cooldowns, app.currentTime)
    /\ app.currentTime < now
    /\ ~isSleeping
    /\ cooldowns["pet"] > 0
    /\ ~enabled("pet", state, cooldowns, app.currentTime)

====
